---- MODULE Spec2Model ----
(***************************************************************************)
(* Model of server/src/diagnostics.ts (bouzuya/vscode-deno): the import    *)
(* diagnostics of the Deno language server.                                *)
(*                                                                         *)
(*   - Diagnostics.generate : walks the syntax tree of a document,         *)
(*     collects the module specifier literals and checks each of them;     *)
(*   - Diagnostics.diagnosis : publishes the result of generate;           *)
(*   - the onCodeAction handler : offers a quick fix per diagnostic;       *)
(*   - the updateDiagnostic notification handler.                          *)
(*                                                                         *)
(* Texts are sequences of one-character strings, so that the regular       *)
(* expressions of the source are computed character by character.          *)
(***************************************************************************)
EXTENDS Integers, Sequences, FiniteSets, TLC

(***************************************************************************)
(* Bounds of the model.                                                    *)
(***************************************************************************)
\* highest document revision an edit may produce
MaxVersion == 3
\* number of diagnosis calls that may be started (and overlap)
MaxCalls == 1
\* number of nodes of the syntax trees the walk is checked on
MaxNodes == 4
\* longest diagnostic list handed to the code-action handler
MaxDiags == 3
\* widest leading trivia (whitespace) in front of a literal
MaxTrivia == 2
\* most characters an escape sequence adds to the raw literal
MaxEscape == 2

(***************************************************************************)
(* Characters.                                                             *)
(***************************************************************************)
\* "LF" stands for the line feed character (a line terminator); "SP" for a space
LineTerminators == {"LF", "CR", "LS", "PS"}
LowerCase == {"a","b","c","d","e","f","g","h","i","j","k","l","m",
              "n","o","p","q","r","s","t","u","v","w","x","y","z"}
UpperCase == {"A","B","C","D","E","F","G","H","I","J","K","L","M",
              "N","O","P","Q","R","S","T","U","V","W","X","Y","Z"}
Digits == {"0","1","2","3","4","5","6","7","8","9"}

\* text holds prefix at index i (1-based)
HasAt(text, i, prefix) ==
  /\ Len(text) >= i + Len(prefix) - 1
  /\ \A k \in 1..Len(prefix) : text[i + k - 1] = prefix[k]

(***************************************************************************)
(* enum DiagnosticCode                                                     *)
(***************************************************************************)
InvalidModule == 1001
MissingExtension == 1002
PreferHTTPS == 1003
LocalModuleNotExist == 1004
RemoteModuleNotExist == 1005

\* DiagnosticSeverity of vscode-languageserver, by name
SeverityError == "Error"
SeverityWarning == "Warning"

\* this.name : the producer's name, stamped as the source of each diagnostic
Name == "deno"

(***************************************************************************)
(* const FixItems: { [code: number]: Fix }; the title of MissingExtension   *)
(* is written without its backquotes.                                      *)
(***************************************************************************)
FixItems ==
  [c \in {MissingExtension, PreferHTTPS, LocalModuleNotExist, RemoteModuleNotExist} |->
     CASE c = MissingExtension ->
            [title |-> "Add .ts extension.", command |-> "deno._add_missing_extension"]
       [] c = PreferHTTPS ->
            [title |-> "Use HTTPS module.", command |-> "deno._use_https_module"]
       [] c = LocalModuleNotExist ->
            [title |-> "Create module.", command |-> "deno._create_local_module"]
       [] c = RemoteModuleNotExist ->
            [title |-> "Fetch module.", command |-> "deno._fetch_remote_module"]]

(***************************************************************************)
(* generate: the checks of one module specifier literal.                   *)
(***************************************************************************)
\* const validExtensionNameMap
validExtensionNameMap ==
  { <<".","t","s">>, <<".","t","s","x">>, <<".","j","s">>, <<".","j","s","x">>,
    <<".","j","s","o","n">>, <<".","w","a","s","m">> }

\* the value of a failed match's first element
Undefined == <<"undefined">>

\* Math.abs
Abs(n) == IF n < 0 THEN -n ELSE n

\* variant of numberOfSpaces: the two quotes are not counted
numberOfSpaces_NoQuotes(moduleNode) ==
  Abs(moduleNode.end - moduleNode.pos - Len(moduleNode.text))

\* const numberOfSpaces = Math.abs(moduleNode.end - moduleNode.pos - (moduleNode.text.length + 2))
numberOfSpaces(moduleNode) ==
  Abs(moduleNode.end - moduleNode.pos - (Len(moduleNode.text) + 2))

\* document.positionAt(offset); the documents of the model hold one line
positionAt(offset) == [line |-> 0, character |-> offset]

\* Range.create(document.positionAt(moduleNode.pos + numberOfSpaces),
\*              document.positionAt(moduleNode.end))
range(moduleNode) ==
  [start |-> positionAt(moduleNode.pos + numberOfSpaces(moduleNode)),
   end |-> positionAt(moduleNode.end)]

\* variant of isRelativeModule: /^\./, any text starting with a dot
isRelativeModule_AnyDot(text) ==
  Len(text) >= 1 /\ text[1] = "."

\* /^\..+/.test(text) : a dot, then one or more characters other than line terminators
isRelativeModule(text) ==
  /\ Len(text) >= 2
  /\ text[1] = "."
  /\ text[2] \notin LineTerminators

\* /^https?:\/\/.*/.test(text)
isRemoteModule(text) ==
  /\ HasAt(text, 1, <<"h","t","t","p">>)
  /\ \/ HasAt(text, 5, <<"s",":","/","/">>)
     \/ HasAt(text, 5, <<":","/","/">>)

\* /^https:\/\//.test(text)
isHttps(text) == HasAt(text, 1, <<"h","t","t","p","s",":","/","/">>)

\* variant of extensionName: /\.[a-zA-Z\d]+/, not anchored at the end
extensionName_Unanchored(text) ==
  LET starts == { i \in 1..Len(text) :
                    /\ text[i] = "."
                    /\ i < Len(text)
                    /\ text[i+1] \in LowerCase \cup UpperCase \cup Digits }
  IN IF starts = {} THEN Undefined
     ELSE LET i == CHOOSE j \in starts : \A k \in starts : j <= k
              stop == CHOOSE e \in i..Len(text) :
                        /\ \A k \in (i+1)..e : text[k] \in LowerCase \cup UpperCase \cup Digits
                        /\ (e = Len(text)
                            \/ text[e+1] \notin LowerCase \cup UpperCase \cup Digits)
          IN SubSeq(text, i, stop)

\* const [extensionName] = text.match(/\.[a-zA-Z\d]+$/) || []
extensionName(text) ==
  LET starts == { i \in 1..Len(text) :
                    /\ text[i] = "."
                    /\ i < Len(text)
                    /\ \A k \in (i+1)..Len(text) :
                         text[k] \in LowerCase \cup UpperCase \cup Digits }
  IN IF starts = {} THEN Undefined
     ELSE LET i == CHOOSE j \in starts : \A k \in starts : j <= k
          IN SubSeq(text, i, Len(text))

\* Diagnostic.create(range, message, severity, code, source)
Diagnostic(r, message, severity, code, source) ==
  [range |-> r, message |-> message, severity |-> severity, code |-> code,
   source |-> source]

\* variant of push: unshift, the diagnostic is put in front
push_Unshift(acc, d, i) ==
  [diags |-> <<d>> \o acc.diags, origin |-> <<i>> \o acc.origin]

\* diagnosticsForThisDocument.push(d); origin records, beside the list, the
\* index of the reference each diagnostic was produced for
push(acc, d, i) ==
  [diags |-> Append(acc.diags, d), origin |-> Append(acc.origin, i)]

EmptyAcc == [diags |-> <<>>, origin |-> <<>>]

\* the specifier form check
checkInvalidModule(acc, moduleNode, i) ==
  IF ~isRelativeModule(moduleNode.text) /\ ~isRemoteModule(moduleNode.text)
  THEN push(acc, Diagnostic(range(moduleNode), "relative/HTTP only",
                            SeverityError, InvalidModule, Name), i)
  ELSE acc

\* the extension check
checkExtension(acc, moduleNode, i) ==
  IF extensionName(moduleNode.text) \notin validExtensionNameMap
  THEN push(acc, Diagnostic(range(moduleNode), "valid extension name",
                            SeverityError, MissingExtension, Name), i)
  ELSE acc

\* variant of checkHttps: the test for a remote module is left out
checkHttps_AnyModule(acc, moduleNode, i) ==
  IF ~isHttps(moduleNode.text)
  THEN push(acc, Diagnostic(range(moduleNode), "recommend HTTPS",
                            SeverityWarning, PreferHTTPS, Name), i)
  ELSE acc

\* the protocol check
checkHttps(acc, moduleNode, i) ==
  IF isRemoteModule(moduleNode.text) /\ ~isHttps(moduleNode.text)
  THEN push(acc, Diagnostic(range(moduleNode), "recommend HTTPS",
                            SeverityWarning, PreferHTTPS, Name), i)
  ELSE acc

\* the part of one loop iteration that runs before the await of deno.resolveModule
syncChecks(acc, moduleNode, i) ==
  checkHttps(checkExtension(checkInvalidModule(acc, moduleNode, i), moduleNode, i),
             moduleNode, i)

\* the part of one loop iteration that runs after deno.resolveModule returned
\* module; module.exists is ts.sys.fileExists(module.filepath)
checkExists(acc, moduleNode, i, module) ==
  IF ~module.exists
  THEN push(acc, Diagnostic(range(moduleNode), "Cannot found module",
                            SeverityError,
                            IF module.remote THEN RemoteModuleNotExist
                                             ELSE LocalModuleNotExist,
                            Name), i)
  ELSE acc

\* what deno.resolveModule may return, as far as generate looks at it
Modules == [exists : BOOLEAN, remote : BOOLEAN]


(***************************************************************************)
(* generate: the walk of the syntax tree (delint, delintNode).             *)
(*                                                                         *)
(* A syntax tree is a function from node ids 1..n to nodes; node 1 is the  *)
(* SourceFile. A node holds its kind, the kind of its callee               *)
(* (CallExpression.expression), its operand (arguments[0],                 *)
(* moduleReference.expression or moduleSpecifier, NoOperand when absent)   *)
(* and its parent; the children of a node are visited in id order.         *)
(***************************************************************************)
NoOperand == [kind |-> "None", text |-> <<>>, pos |-> 0, end |-> 0]

\* ts.isStringLiteral(node)
isStringLiteral(node) == node.kind = "StringLiteral"

\* variant of moduleNode: the ExportDeclaration case is missing and any call
\* with a literal argument counts
moduleNode_NoExport(node) ==
  CASE node.kind = "CallExpression" ->
         IF node.operand.kind = "StringLiteral" THEN <<node.operand>> ELSE <<>>
    [] node.kind \in {"ImportEqualsDeclaration", "ImportDeclaration"} ->
         IF node.operand.kind = "StringLiteral" THEN <<node.operand>> ELSE <<>>
    [] OTHER -> <<>>

\* the switch of delintNode: the literal this node contributes, if any
moduleNode(node) ==
  CASE node.kind = "CallExpression" ->
         IF node.expression = "ImportKeyword"
            /\ node.operand # NoOperand /\ isStringLiteral(node.operand)
         THEN <<node.operand>> ELSE <<>>
    [] node.kind = "ImportEqualsDeclaration" ->
         IF node.operand # NoOperand /\ isStringLiteral(node.operand)
         THEN <<node.operand>> ELSE <<>>
    [] node.kind = "ImportDeclaration" ->
         IF node.operand # NoOperand /\ isStringLiteral(node.operand)
         THEN <<node.operand>> ELSE <<>>
    [] node.kind = "ExportDeclaration" ->
         IF node.operand # NoOperand /\ isStringLiteral(node.operand)
         THEN <<node.operand>> ELSE <<>>
    [] OTHER -> <<>>

RECURSIVE SortedSeq(_)
SortedSeq(S) ==
  IF S = {} THEN <<>>
  ELSE LET m == CHOOSE x \in S : \A y \in S : x <= y
       IN <<m>> \o SortedSeq(S \ {m})

\* the children ts.forEachChild hands to its callback, in order
Children(sourceFile, n) ==
  SortedSeq({ c \in DOMAIN sourceFile : sourceFile[c].parent = n })

RECURSIVE delintNode(_, _, _), forEachChild(_, _, _)
\* ts.forEachChild(node, delintNode); delintNode returns nothing, so no child
\* stops the iteration
forEachChild(sourceFile, kids, acc) ==
  IF kids = <<>> THEN acc
  ELSE forEachChild(sourceFile, Tail(kids), delintNode(sourceFile, Head(kids), acc))

\* function delintNode(node); acc.visited records the nodes in the order
\* delintNode is entered
delintNode(sourceFile, n, acc) ==
  forEachChild(sourceFile, Children(sourceFile, n),
               [visited |-> Append(acc.visited, n),
                moduleNodes |-> acc.moduleNodes \o moduleNode(sourceFile[n])])

\* delint(sourceFile)
delint(sourceFile) ==
  delintNode(sourceFile, 1, [visited |-> <<>>, moduleNodes |-> <<>>])

(***************************************************************************)
(* The onCodeAction handler.                                               *)
(***************************************************************************)
\* CodeAction.create(title + " (" + name + ")", Command.create(title, command,
\* uri, range narrowed by one character), CodeActionKind.QuickFix)
CodeAction(v, uri) ==
  LET fixItem == FixItems[v.code]
  IN [title |-> <<fixItem.title, Name>>,
      command |-> [title |-> fixItem.title,
                   command |-> fixItem.command,
                   arguments |->
                     <<uri,
                       [start |-> [line |-> v.range.start.line,
                                   character |-> v.range.start.character + 1],
                        end |-> [line |-> v.range.end.line,
                                 character |-> v.range.end.character - 1]]>>],
      kind |-> "quickfix"]

\* .map(v => fixItem ? action : undefined).filter(v => v)
mapFilter(denoDiagnostics, uri) ==
  LET mapped == [k \in 1..Len(denoDiagnostics) |->
                   IF denoDiagnostics[k].code \in DOMAIN FixItems
                   THEN <<CodeAction(denoDiagnostics[k], uri)>> ELSE <<>>]
      keep(a) == a # <<>>
      kept == SelectSeq(mapped, keep)
  IN [k \in 1..Len(kept) |-> kept[k][1]]

\* variant of ofThisProducer: the source is not looked at
ofThisProducer_Any(v) == TRUE

\* diagnostics.filter(v => v.source === this.name)
ofThisProducer(v) == v.source = Name

\* connection.onCodeAction(async params => ...); defined is FALSE when the
\* handler returns without a value
onCodeAction(diagnostics, uri) ==
  LET denoDiagnostics == SelectSeq(diagnostics, ofThisProducer)
  IN IF Len(denoDiagnostics) = 0
     THEN [defined |-> FALSE, actions |-> <<>>]
     ELSE [defined |-> TRUE, actions |-> mapFilter(denoDiagnostics, uri)]


(***************************************************************************)
(* State.                                                                  *)
(***************************************************************************)
VARIABLES
  document,   \* the TextDocument held by this.documents (updated in place)
  tasks,      \* the diagnosis calls: where each one stands, and its locals
  published,  \* the messages handed to connection.sendDiagnostics, in order
  ref,        \* one module specifier literal (checks of a single reference)
  refAcc,     \* diagnosticsForThisDocument for that literal
  refPc,      \* "start", "resolve" (awaiting deno.resolveModule) or "done"
  tree,       \* a syntax tree (the walk)
  walkOut,    \* the result of delint on it
  walkPc,     \* "start" or "done"
  caParams,   \* params.context.diagnostics of a code-action request
  caResult,   \* what the handler returned
  caPc        \* "start" or "done"

vars == <<document, tasks, published, ref, refAcc, refPc,
          tree, walkOut, walkPc, caParams, caResult, caPc>>

mainVars == <<document, tasks, published>>
refVars == <<ref, refAcc, refPc>>
walkVars == <<tree, walkOut, walkPc>>
caVars == <<caParams, caResult, caPc>>

DocUri == "file:///main.ts"
OtherUri == "file:///other.ts"

(***************************************************************************)
(* Document texts of the main specification, as the trees                 *)
(* ts.createSourceFile gives for them.                                     *)
(***************************************************************************)
\* a terminated literal without escapes: trivia, quote, text, quote
Literal(text, pos, trivia) ==
  [kind |-> "StringLiteral", text |-> text, pos |-> pos,
   end |-> pos + trivia + Len(text) + 2]

Node(kind, expression, operand, parent) ==
  [kind |-> kind, expression |-> expression, operand |-> operand, parent |-> parent]

SourceFileNode == Node("SourceFile", "None", NoOperand, 0)

\*  import "./a"; { import("http://x/b.ts") }
TextA ==
  <<SourceFileNode,
    Node("ImportDeclaration", "None", Literal(<<".","/","a">>, 6, 1), 1),
    Node("Block", "None", NoOperand, 1),
    Node("CallExpression", "ImportKeyword",
         Literal(<<"h","t","t","p",":","/","/","x","/","b",".","t","s">>, 23, 0), 3)>>

\*  export * from "lodash"; require("http://x/c")
TextB ==
  <<SourceFileNode,
    Node("ExportDeclaration", "None", Literal(<<"l","o","d","a","s","h">>, 13, 1), 1),
    Node("CallExpression", "Identifier",
         Literal(<<"h","t","t","p",":","/","/","x","/","c">>, 32, 0), 1)>>

\*  a text without any import
TextC == <<SourceFileNode, Node("Block", "None", NoOperand, 1)>>

Texts == {"A", "B", "C"}

\* ts.createSourceFile(uri, text, ESNext, false, TSX)
createSourceFile(text) ==
  CASE text = "A" -> TextA
    [] text = "B" -> TextB
    [] text = "C" -> TextC

(***************************************************************************)
(* diagnosis and generate as a state machine. A call runs without          *)
(* interruption up to its next await; edits and other calls interleave at  *)
(* the awaits (bridge.getWorkspaceConfig, deno.resolveModule).             *)
(***************************************************************************)
\* pc, the locals of diagnosis and generate (version, moduleNodes, idx, acc),
\* and records of the model: rev, the revision whose text generate read (0 when
\* it read none); calls, the number of deno.resolveModule calls per reference;
\* modules, what those calls returned; failed, the references whose call threw
IdleTask ==
  [pc |-> "idle", version |-> 0, rev |-> 0, moduleNodes |-> <<>>, idx |-> 0,
   acc |-> EmptyAcc, calls |-> <<>>, modules |-> <<>>, failed |-> {}]

\* the argument of connection.sendDiagnostics; rev, origin and modules are
\* records of the model
Message(task) ==
  [uri |-> DocUri, version |-> task.version, diagnostics |-> task.acc.diags,
   rev |-> task.rev, origin |-> task.acc.origin, modules |-> task.modules]

\* the for loop of generate, from the reference after task.idx up to the next
\* await of deno.resolveModule, or to the return
continueLoop(task) ==
  IF task.idx < Len(task.moduleNodes)
  THEN LET i == task.idx + 1
       IN [task EXCEPT !.idx = i,
                       !.acc = syncChecks(task.acc, task.moduleNodes[i], i),
                       !.calls[i] = @ + 1,
                       !.pc = "resolve"]
  ELSE [task EXCEPT !.pc = "returned"]

\* a call that moved to newTask: when generate returned, diagnosis sends the
\* list and the call's diagnosticsForThisDocument is gone
Step(t, newTask) ==
  /\ tasks' = [tasks EXCEPT ![t] =
                 IF newTask.pc = "returned" THEN [newTask EXCEPT !.acc = EmptyAcc]
                                            ELSE newTask]
  /\ published' = IF newTask.pc = "returned"
                  THEN Append(published, Message(newTask))
                  ELSE published

\* diagnosis(document), up to the await inside generate
diagnosis(t) ==
  /\ tasks[t].pc = "idle"
  /\ \A u \in 1..(t-1) : tasks[u].pc # "idle"
  /\ LET started == [tasks[t] EXCEPT !.version = document.version]
     IN IF document.languageId \notin {"typescript", "typescriptreact"}
        THEN Step(t, [started EXCEPT !.pc = "returned"])
        ELSE Step(t, [started EXCEPT !.pc = "config"])
  /\ UNCHANGED document

\* a direct call of diagnosis by the server
DiagnosisCall(t) == diagnosis(t)

\* connection.onNotification("updateDiagnostic", uri => ...)
UpdateDiagnostic(t, uri) ==
  IF uri = document.uri
  THEN diagnosis(t)
  ELSE UNCHANGED mainVars

\* bridge.getWorkspaceConfig returned: generate runs up to its next await
ConfigReturns(t, config, parses) ==
  /\ tasks[t].pc = "config"
  /\ IF ~config.enable
     THEN Step(t, [tasks[t] EXCEPT !.pc = "returned"])
     ELSE IF ~parses
     THEN Step(t, [tasks[t] EXCEPT !.pc = "returned", !.rev = document.version])
     ELSE LET sourceFile == createSourceFile(document.text)
              moduleNodes == delint(sourceFile).moduleNodes
          IN Step(t, continueLoop(
                  [tasks[t] EXCEPT !.rev = document.version,
                                   !.moduleNodes = moduleNodes,
                                   !.calls = [i \in 1..Len(moduleNodes) |-> 0]]))
  /\ UNCHANGED document

\* deno.resolveModule returned module for the current reference
ResolveReturns(t, module) ==
  /\ tasks[t].pc = "resolve"
  /\ LET task == tasks[t]
         i == task.idx
     IN Step(t, continueLoop(
             [task EXCEPT !.acc = checkExists(task.acc, task.moduleNodes[i], i, module),
                          !.modules = Append(@, module)]))
  /\ UNCHANGED document

\* deno.resolveModule threw or rejected: nothing catches it, generate and
\* diagnosis reject, and the diagnostics collected so far are dropped
ResolveThrows(t) ==
  /\ tasks[t].pc = "resolve"
  /\ tasks' = [tasks EXCEPT ![t].pc = "rejected", ![t].acc = EmptyAcc,
                            ![t].failed = @ \cup {tasks[t].idx}]
  /\ UNCHANGED <<document, published>>

\* an edit: TextDocument.update changes the text and the version of the same
\* object
DidChange(text) ==
  /\ document.version < MaxVersion
  /\ document' = [document EXCEPT !.version = @ + 1, !.text = text]
  /\ UNCHANGED <<tasks, published>>

Init ==
  /\ document \in [uri : {DocUri},
                   languageId : {"typescript", "typescriptreact", "javascript"},
                   version : {1},
                   text : Texts]
  /\ tasks = [t \in 1..MaxCalls |-> IdleTask]
  /\ published = <<>>
  /\ ref = NoOperand /\ refAcc = EmptyAcc /\ refPc = "off"
  /\ tree = <<>> /\ walkOut = <<>> /\ walkPc = "off"
  /\ caParams = <<>> /\ caResult = <<>> /\ caPc = "off"

Next ==
  \/ \E t \in 1..MaxCalls : DiagnosisCall(t) /\ UNCHANGED <<refVars, walkVars, caVars>>
  \/ \E t \in 1..MaxCalls, uri \in {DocUri, OtherUri} :
       UpdateDiagnostic(t, uri) /\ UNCHANGED <<refVars, walkVars, caVars>>
  \/ \E t \in 1..MaxCalls, config \in [enable : BOOLEAN], parses \in BOOLEAN :
       ConfigReturns(t, config, parses) /\ UNCHANGED <<refVars, walkVars, caVars>>
  \/ \E t \in 1..MaxCalls, module \in Modules :
       ResolveReturns(t, module) /\ UNCHANGED <<refVars, walkVars, caVars>>
  \/ \E t \in 1..MaxCalls : ResolveThrows(t) /\ UNCHANGED <<refVars, walkVars, caVars>>
  \/ \E text \in Texts : DidChange(text) /\ UNCHANGED <<refVars, walkVars, caVars>>

Spec == Init /\ [][Next]_vars


(***************************************************************************)
(* The checks of a single reference, over many specifier texts and literal *)
(* shapes: the body of the for loop of generate, applied to one literal.   *)
(***************************************************************************)
Prefixes ==
  { <<>>, <<".">>, <<".","/">>, <<".",".","/">>, <<".","LF">>, <<"SP",".","/">>,
    <<"/">>, <<"a">>,
    <<"h","t","t","p",":","/","/">>, <<"h","t","t","p","s",":","/","/">>,
    <<"h","t","t","p",":","/">>, <<"h","t","t","p","s",":">>,
    <<"f","t","p",":","/","/">> }
Middles == { <<>>, <<"a">>, <<"a",".","b","/","c">>, <<"LF">> }
Suffixes ==
  { <<>>, <<".","t","s">>, <<".","t","s","x">>, <<".","j","s">>, <<".","j","s","x">>,
    <<".","j","s","o","n">>, <<".","w","a","s","m">>, <<".","T","S">>,
    <<".","d",".","t","s">>, <<".","c","s","s">>, <<".","1">>, <<".">>,
    <<".","t","s","/">>, <<".","t","-","s">>, <<".","t","s","LF">> }
Specifiers == { p \o m \o x : p \in Prefixes, m \in Middles, x \in Suffixes }

\* a literal as the scanner delimits it: leading trivia, the opening quote, the
\* raw content (the text, longer by `escape` when it holds escape sequences)
\* and the closing quote (absent from an unterminated literal)
RawLiteral(text, pos, trivia, escape, closed) ==
  [kind |-> "StringLiteral", text |-> text, pos |-> pos,
   end |-> pos + trivia + 1 + Len(text) + escape + (IF closed THEN 1 ELSE 0)]

\* a line terminator stands in a text only as an escape sequence, which makes
\* the raw literal longer than the text
LineBreaks(text) == Cardinality({ k \in 1..Len(text) : text[k] \in LineTerminators })

InitRef ==
  /\ \E text \in Specifiers, pos \in {0, 7}, trivia \in 0..MaxTrivia,
        escape \in 0..MaxEscape, closed \in BOOLEAN :
       /\ LineBreaks(text) <= escape
       /\ ref = [node |-> RawLiteral(text, pos, trivia, escape, closed),
              trivia |-> trivia, escape |-> escape, closed |-> closed]
  /\ refAcc = EmptyAcc
  /\ refPc = "start"
  /\ document = [uri |-> DocUri, languageId |-> "typescript", version |-> 1, text |-> "C"]
  /\ tasks = <<>>
  /\ published = <<>>
  /\ tree = <<>> /\ walkOut = <<>> /\ walkPc = "off"
  /\ caParams = <<>> /\ caResult = <<>> /\ caPc = "off"

\* the loop body up to the await of deno.resolveModule
RefChecks ==
  /\ refPc = "start"
  /\ refAcc' = syncChecks(refAcc, ref.node, 1)
  /\ refPc' = "resolve"
  /\ UNCHANGED ref

\* the rest of the loop body, once deno.resolveModule returned module
RefResolved(module) ==
  /\ refPc = "resolve"
  /\ refAcc' = checkExists(refAcc, ref.node, 1, module)
  /\ refPc' = "done"
  /\ UNCHANGED ref

NextRef ==
  \/ RefChecks /\ UNCHANGED <<mainVars, walkVars, caVars>>
  \/ \E module \in Modules : RefResolved(module) /\ UNCHANGED <<mainVars, walkVars, caVars>>

SpecRef == InitRef /\ [][NextRef]_vars

(***************************************************************************)
(* The walk, over every tree of up to MaxNodes nodes.                      *)
(***************************************************************************)
\* kind, callee kind and operand kind of the nodes the trees are built from
NodeForms ==
  { <<"CallExpression", "ImportKeyword", "StringLiteral">>,
    <<"CallExpression", "ImportKeyword", "None">>,
    <<"CallExpression", "ImportKeyword", "TemplateExpression">>,
    <<"CallExpression", "Identifier", "StringLiteral">>,
    <<"ImportEqualsDeclaration", "None", "StringLiteral">>,
    <<"ImportEqualsDeclaration", "None", "None">>,
    <<"ImportDeclaration", "None", "StringLiteral">>,
    <<"ExportDeclaration", "None", "StringLiteral">>,
    <<"ExportDeclaration", "None", "None">>,
    <<"Block", "None", "None">> }

\* the operand of node i: a literal of its own (its pos tells the nodes apart)
OperandOf(form, i) ==
  IF form[3] = "None" THEN NoOperand
  ELSE [Literal(<<".","/","m",".","t","s">>, 10 * i, 1) EXCEPT !.kind = form[3]]

TreesOfSize(n) ==
  { [i \in 1..n |->
       IF i = 1 THEN SourceFileNode
       ELSE Node(f[i][1], f[i][2], OperandOf(f[i], i), q[i])] :
    f \in [2..n -> NodeForms],
    q \in { r \in [2..n -> 1..(n-1)] : \A i \in 2..n : r[i] < i } }

InitWalk ==
  /\ \E n \in 1..MaxNodes : tree \in TreesOfSize(n)
  /\ walkOut = [visited |-> <<>>, moduleNodes |-> <<>>]
  /\ walkPc = "start"
  /\ document = [uri |-> DocUri, languageId |-> "typescript", version |-> 1, text |-> "C"]
  /\ tasks = <<>>
  /\ published = <<>>
  /\ ref = NoOperand /\ refAcc = EmptyAcc /\ refPc = "off"
  /\ caParams = <<>> /\ caResult = <<>> /\ caPc = "off"

\* delint(sourceFile)
Walk ==
  /\ walkPc = "start"
  /\ walkOut' = delint(tree)
  /\ walkPc' = "done"
  /\ UNCHANGED tree

NextWalk == Walk /\ UNCHANGED <<mainVars, refVars, caVars>>

SpecWalk == InitWalk /\ [][NextWalk]_vars

(***************************************************************************)
(* The code-action handler, over every diagnostic list of up to MaxDiags   *)
(* diagnostics; the k-th diagnostic of a request covers columns 10k..10k+8.*)
(***************************************************************************)
\* the codes of this producer, and 2304, a code of another producer
RequestCodes == {InvalidModule, MissingExtension, PreferHTTPS, LocalModuleNotExist,
                 RemoteModuleNotExist, 2304}
RequestSources == {Name, "ts"}

InitAction ==
  /\ \E n \in 0..MaxDiags :
       \E f \in [1..n -> RequestSources \X RequestCodes] :
         caParams = [k \in 1..n |->
                       Diagnostic([start |-> positionAt(10 * k),
                                   end |-> positionAt(10 * k + 8)],
                                  "message",
                                  IF f[k][2] = PreferHTTPS THEN SeverityWarning
                                                           ELSE SeverityError,
                                  f[k][2], f[k][1])]
  /\ caResult = [defined |-> FALSE, actions |-> <<>>]
  /\ caPc = "start"
  /\ document = [uri |-> DocUri, languageId |-> "typescript", version |-> 1, text |-> "C"]
  /\ tasks = <<>>
  /\ published = <<>>
  /\ ref = NoOperand /\ refAcc = EmptyAcc /\ refPc = "off"
  /\ tree = <<>> /\ walkOut = <<>> /\ walkPc = "off"

\* the handler answers the request
HandleCodeAction ==
  /\ caPc = "start"
  /\ caResult' = onCodeAction(caParams, document.uri)
  /\ caPc' = "done"
  /\ UNCHANGED caParams

NextAction == HandleCodeAction /\ UNCHANGED <<mainVars, refVars, walkVars>>

SpecAction == InitAction /\ [][NextAction]_vars


(***************************************************************************)
(* Properties.                                                             *)
(***************************************************************************)
\* text starts with prefix
StartsWith(text, prefix) ==
  Len(text) >= Len(prefix) /\ SubSeq(text, 1, Len(prefix)) = prefix

Http == <<"h","t","t","p",":","/","/">>
Https == <<"h","t","t","p","s",":","/","/">>

UrlLike(text) == StartsWith(text, Http) \/ StartsWith(text, Https)

\* the diagnostics with code c among those produced for the single reference
RefDiagnostics(c) ==
  { k \in DOMAIN refAcc.diags : refAcc.diags[k].code = c }

\* the synchronous checks of the single reference have run
RefChecked == refPc \in {"resolve", "done"}

(* C1 as stated: an InvalidModule (1001, Error) diagnostic is produced for a
   reference if and only if its text neither starts with "." followed by at
   least one more character nor starts with http:// or https://. *)
C1_AsStated ==
  RefChecked =>
    /\ (RefDiagnostics(InvalidModule) # {}) <=>
         ~( (Len(ref.node.text) >= 2 /\ ref.node.text[1] = ".")
            \/ UrlLike(ref.node.text) )
    /\ \A k \in RefDiagnostics(InvalidModule) : refAcc.diags[k].severity = SeverityError

(* C1 amended: an InvalidModule (1001, Error) diagnostic is produced for a
   reference if and only if its text neither starts with "." followed by a
   character that is not a line terminator, nor starts with http:// or
   https://; the bare "." is reported and so is "." followed by a line break. *)
C1_InvalidModuleIff ==
  RefChecked =>
    /\ (RefDiagnostics(InvalidModule) # {}) <=>
         ~( (Len(ref.node.text) >= 2 /\ ref.node.text[1] = "."
             /\ ref.node.text[2] \notin {"LF", "CR", "LS", "PS"})
            \/ UrlLike(ref.node.text) )
    /\ \A k \in RefDiagnostics(InvalidModule) : refAcc.diags[k].severity = SeverityError
    /\ Cardinality(RefDiagnostics(InvalidModule)) <= 1

\* the bare specifier "." has been checked and reported
C1_Witness ==
  /\ refPc = "done"
  /\ ref.node.text = <<".">>
  /\ RefDiagnostics(InvalidModule) # {}

\* the extensions generate accepts, as the specification lists them
AllowedExtensions ==
  { <<".","t","s">>, <<".","t","s","x">>, <<".","j","s">>, <<".","j","s","x">>,
    <<".","j","s","o","n">>, <<".","w","a","s","m">> }

AsciiLetterOrDigit(c) ==
  c \in LowerCase \cup UpperCase \cup Digits

\* text ends with an allowed extension: its last dot is followed, up to the
\* end, by one or more letters or digits, and the two together are allowed
HasAllowedExtension(text) ==
  \E i \in 1..Len(text) :
    /\ text[i] = "."
    /\ \A k \in (i+1)..Len(text) : text[k] # "."
    /\ i < Len(text)
    /\ \A k \in (i+1)..Len(text) : AsciiLetterOrDigit(text[k])
    /\ SubSeq(text, i, Len(text)) \in AllowedExtensions

(* C2: a MissingExtension (1002, Error) diagnostic is produced for a reference
   if and only if its text has no trailing extension or one outside
   {.ts, .tsx, .js, .jsx, .json, .wasm}, whether or not the specifier form is
   valid. *)
C2_MissingExtensionIff ==
  RefChecked =>
    /\ (RefDiagnostics(MissingExtension) # {}) <=> ~HasAllowedExtension(ref.node.text)
    /\ \A k \in RefDiagnostics(MissingExtension) : refAcc.diags[k].severity = SeverityError
    /\ Cardinality(RefDiagnostics(MissingExtension)) <= 1

\* a specifier of invalid form without extension got both diagnostics
C2_Witness ==
  /\ refPc = "done"
  /\ RefDiagnostics(InvalidModule) # {}
  /\ RefDiagnostics(MissingExtension) # {}
  /\ ~UrlLike(ref.node.text)

(* C4: a PreferHTTPS (1003) diagnostic is produced for a reference if and only
   if its text starts with http:// or https:// and does not start with
   https://; it has severity Warning, and every other diagnostic has severity
   Error. *)
C4_PreferHTTPSIff ==
  RefChecked =>
    /\ (RefDiagnostics(PreferHTTPS) # {}) <=>
         (UrlLike(ref.node.text) /\ ~StartsWith(ref.node.text, Https))
    /\ \A k \in DOMAIN refAcc.diags :
         refAcc.diags[k].severity =
           IF refAcc.diags[k].code = PreferHTTPS THEN SeverityWarning ELSE SeverityError
    /\ Cardinality(RefDiagnostics(PreferHTTPS)) <= 1

\* an http:// specifier got the warning, next to an error for the missing file
C4_Witness ==
  /\ refPc = "done"
  /\ StartsWith(ref.node.text, Http)
  /\ RefDiagnostics(PreferHTTPS) # {}
  /\ RefDiagnostics(RemoteModuleNotExist) # {}

\* offset of the opening quote of the single reference
QuoteOffset == ref.node.pos + ref.trivia

(* C8 as stated: whatever the leading whitespace, the range of each diagnostic
   of a reference starts at the first character of the literal's text (after
   the opening quote) and lies within the literal's span without its quotes. *)
C8_AsStated ==
  RefChecked =>
    \A k \in DOMAIN refAcc.diags :
      /\ refAcc.diags[k].range.start.character = QuoteOffset + 1
      /\ refAcc.diags[k].range.end.character <=
           ref.node.end - (IF ref.closed THEN 1 ELSE 0)

(* C8 amended: whatever the leading whitespace, the range of each diagnostic of
   a reference ends at the end of the literal (after its closing quote) and
   starts within the node's span; when the literal is terminated and holds no
   escape sequence the range starts exactly at the opening quote, so it covers
   the literal with both quotes. *)
C8_RangeCoversLiteral ==
  RefChecked =>
    \A k \in DOMAIN refAcc.diags :
      LET r == refAcc.diags[k].range
      IN /\ r.end = [line |-> 0, character |-> ref.node.end]
         /\ r.start.line = 0
         /\ ref.node.pos <= r.start.character
         /\ r.start.character <= ref.node.end
         /\ (ref.closed /\ ref.escape = 0) =>
              /\ r.start.character = QuoteOffset
              /\ r.end.character = QuoteOffset + Len(ref.node.text) + 2

\* a terminated literal without escapes, after two characters of whitespace, got
\* a diagnostic
C8_Witness ==
  /\ refPc = "done"
  /\ ref.trivia = 2 /\ ref.closed /\ ref.escape = 0
  /\ Len(ref.node.text) > 0
  /\ refAcc.diags # <<>>

(***************************************************************************)
(* The walk.                                                               *)
(***************************************************************************)
RECURSIVE AncestorsOrSelf(_, _)
AncestorsOrSelf(t, n) ==
  IF n = 0 THEN {} ELSE {n} \cup AncestorsOrSelf(t, t[n].parent)

\* a comes before b in the pre-order of t: a is an ancestor of b, or, below
\* their closest common ancestor, the branch of a is an earlier child than the
\* branch of b
PreOrderBefore(t, a, b) ==
  LET A == AncestorsOrSelf(t, a)
      B == AncestorsOrSelf(t, b)
  IN /\ a # b
     /\ \/ a \in B
        \/ /\ b \notin A
           /\ LET ca == CHOOSE x \in A \ B : t[x].parent \in B
                  cb == CHOOSE x \in B \ A : t[x].parent \in A
              IN ca < cb

\* the node is one of the four reference forms, with a string literal
IsReferenceSite(node) ==
  /\ node.operand.kind = "StringLiteral"
  /\ \/ node.kind = "CallExpression" /\ node.expression = "ImportKeyword"
     \/ node.kind = "ImportEqualsDeclaration"
     \/ node.kind = "ImportDeclaration"
     \/ node.kind = "ExportDeclaration"

(* C7: the walk visits every node exactly once, in pre-order, and the extracted
   references are, in that order, the literals of the nodes that are a dynamic
   import, an import-equals, an import or a re-export with a string literal;
   no other node (a require call, an import() without a literal) adds one. *)
C7_WalkExtractsReferences ==
  walkPc = "done" =>
    LET v == walkOut.visited
        sites == { n \in DOMAIN tree : IsReferenceSite(tree[n]) }
        m == walkOut.moduleNodes
    IN /\ Len(v) = Len(tree)
       /\ \A n \in DOMAIN tree : \E p \in DOMAIN v : v[p] = n
       /\ \A p, q \in DOMAIN v : p < q => PreOrderBefore(tree, v[p], v[q])
       /\ Len(m) = Cardinality(sites)
       /\ \A n \in sites : \E k \in DOMAIN m : m[k] = tree[n].operand
       /\ \A k, l \in DOMAIN m : k < l =>
            \E a, b \in sites :
              /\ m[k] = tree[a].operand /\ m[l] = tree[b].operand
              /\ PreOrderBefore(tree, a, b)

\* a tree whose pre-order differs from its id order, with a nested re-export, a
\* require call and two extracted references
C7_Witness ==
  /\ walkPc = "done"
  /\ Len(tree) = 4
  /\ walkOut.visited = <<1, 2, 4, 3>>
  /\ tree[4].kind = "ExportDeclaration" /\ IsReferenceSite(tree[4])
  /\ tree[3].kind = "CallExpression" /\ tree[3].expression = "Identifier"
  /\ tree[3].operand.kind = "StringLiteral"
  /\ IsReferenceSite(tree[2])
  /\ Len(walkOut.moduleNodes) = 2

(***************************************************************************)
(* The code-action handler.                                                *)
(***************************************************************************)
\* the diagnostics of the request that have a fix
Fixable ==
  { i \in DOMAIN caParams :
      /\ caParams[i].source = Name
      /\ caParams[i].code \in {MissingExtension, PreferHTTPS, LocalModuleNotExist,
                               RemoteModuleNotExist} }

\* the k-th of them, in the order of the request
KthFixable(k) ==
  CHOOSE i \in Fixable : Cardinality({ j \in Fixable : j < i }) = k - 1

(* C9: each diagnostic of a code-action request yields one action, with the
   title and the command of the table for its code, when its source is this
   producer and its code is MissingExtension, PreferHTTPS, LocalModuleNotExist
   or RemoteModuleNotExist, and none otherwise; the actions keep the order of
   the diagnostics. *)
C9_OneFixPerFixableDiagnostic ==
  caPc = "done" =>
    /\ Len(caResult.actions) = Cardinality(Fixable)
    /\ \A k \in DOMAIN caResult.actions :
         LET a == caResult.actions[k]
             d == caParams[KthFixable(k)]
         IN /\ a.command.title = FixItems[d.code].title
            /\ a.command.command = FixItems[d.code].command
            /\ a.title[1] = FixItems[d.code].title
            /\ a.command.arguments[2].start.character = d.range.start.character + 1
            /\ a.command.arguments[2].end.character = d.range.end.character - 1

\* a request with an InvalidModule diagnostic, a foreign diagnostic and two
\* fixable ones was answered
C9_Witness ==
  /\ caPc = "done"
  /\ Len(caParams) = 3
  /\ caParams[1].source = Name /\ caParams[1].code = PreferHTTPS
  /\ caParams[2].source # Name /\ caParams[2].code = MissingExtension
  /\ caParams[3].source = Name /\ caParams[3].code = RemoteModuleNotExist
  /\ Len(caResult.actions) = 2

(***************************************************************************)
(* diagnosis and generate.                                                 *)
(***************************************************************************)
\* place of a code in the order of the checks of one reference
CheckRank(code) ==
  CASE code = InvalidModule -> 1
    [] code = MissingExtension -> 2
    [] code = PreferHTTPS -> 3
    [] OTHER -> 4

(* C5: the diagnostics generate returns are ordered by reference, in extraction
   order, and within one reference in the order of the checks (form,
   extension, protocol, existence). *)
C5_OrderedByReference ==
  \A n \in DOMAIN published :
    LET m == published[n]
    IN \A p, q \in DOMAIN m.diagnostics :
         p < q =>
           \/ m.origin[p] < m.origin[q]
           \/ /\ m.origin[p] = m.origin[q]
              /\ CheckRank(m.diagnostics[p].code) < CheckRank(m.diagnostics[q].code)

\* a list with four diagnostics, two per reference, was published
C5_Witness ==
  \E n \in DOMAIN published :
    /\ Len(published[n].diagnostics) = 4
    /\ published[n].origin = <<1, 1, 2, 2>>
    /\ published[n].diagnostics[2].code = LocalModuleNotExist
    /\ published[n].diagnostics[3].code = PreferHTTPS

(* C3: in every run of generate that reaches the loop, deno.resolveModule is
   called exactly once per extracted reference; when a call returned, a
   not-found diagnostic is in the list for that reference if and only if the
   resolved file does not exist, RemoteModuleNotExist when the module is
   remote and LocalModuleNotExist otherwise. *)
C3_OneResolutionPerReference ==
  /\ \A t \in DOMAIN tasks :
       tasks[t].pc \in {"returned", "rejected"} =>
         \A i \in DOMAIN tasks[t].moduleNodes : tasks[t].calls[i] = 1
  /\ \A n \in DOMAIN published :
       LET m == published[n]
       IN \A i \in DOMAIN m.modules :
            LET notFound == { k \in DOMAIN m.diagnostics :
                               /\ m.origin[k] = i
                               /\ m.diagnostics[k].code \in
                                    {LocalModuleNotExist, RemoteModuleNotExist} }
            IN /\ (notFound # {}) <=> ~m.modules[i].exists
               /\ \A k \in notFound :
                    m.diagnostics[k].code =
                      IF m.modules[i].remote THEN RemoteModuleNotExist
                                             ELSE LocalModuleNotExist

(* C6: when deno.resolveModule fails for a reference, generate goes on and
   still returns: the call does not end without a result. *)
C6_FailureIsContained ==
  \A t \in DOMAIN tasks :
    tasks[t].failed # {} => tasks[t].pc # "rejected"

(* C10: every published list that was computed from a text carries the version
   of the revision that text belongs to. *)
C10_VersionMatchesText ==
  \A n \in DOMAIN published :
    published[n].rev # 0 => published[n].version = published[n].rev

====
